---- MODULE Spec2Model ----
(***************************************************************************)
(* Satisfactory server on AWS: the CDK stack that provisions the instance  *)
(* (server-hosting-stack.ts) and the three Lambda handlers that start,     *)
(* stop and reboot it (lambda/start.ts, lambda/stop.ts, lambda/reboot.ts). *)
(*                                                                         *)
(* The stack constructor is a straight-line program; it is modelled one    *)
(* statement per action under a program counter.  After it has finished    *)
(* and the control API exists, the API may be called: each call runs one   *)
(* handler, which is split at its single await.                            *)
(***************************************************************************)
EXTENDS Naturals, Sequences, FiniteSets, TLC

VARIABLES
    Config,         \* the imported Config object, fixed for one synthesis
    pc,             \* the constructor's position
    vpc,            \* const vpc
    vpcSubnets,     \* const vpcSubnets
    securityGroup,  \* const securityGroup: its ingress rules, in order
    server,         \* const server (the Instance and its role)
    createdBuckets, \* Bucket constructs created by `new Bucket`
    savesBucket,    \* const savesBucket
    userData,       \* server.userData: the calls made on it, in order
    startupScript,  \* const startupScript (the install.sh Asset)
    restApi,        \* const restApi and the methods under its root
    lambdas,        \* NodejsFunction constructs created by createLambda
    invocations,    \* runtime: handler invocations, in arrival order
    requests        \* runtime: requests received by the EC2 control plane

vars == <<Config, pc, vpc, vpcSubnets, securityGroup, server, createdBuckets,
          savesBucket, userData, startupScript, restApi, lambdas, invocations,
          requests>>

stackVars == <<Config, pc, vpc, vpcSubnets, securityGroup, server,
               createdBuckets, savesBucket, userData, startupScript, restApi,
               lambdas>>

-----------------------------------------------------------------------------
(* Bounds *)

\* API calls made during one behaviour
MaxInvocations == 2

-----------------------------------------------------------------------------
(* JavaScript values.  A scalar is the pair <<typeof, text>>; the text is   *)
(* what a template literal prints for it.                                   *)

JsUndefined == <<"undefined", "undefined">>

JsString(s) == <<"string", s>>

JsBoolean(b) == <<"boolean", IF b THEN "true" ELSE "false">>

\* ToBoolean: undefined, false and the empty string are falsy
Truthy(v) == v \notin {JsUndefined, JsBoolean(FALSE), JsString("")}

\* `${v}`
TemplateString(v) == v[2]

\* A construct that has not been created yet
Null == [construct |-> "none"]

-----------------------------------------------------------------------------
(* The configuration: every combination of the optional settings.          *)

ConfigSpace ==
    [ prefix               : {JsString("Satisfactory")},
      account              : {JsString("123456789012")},
      vpcId                : {JsUndefined, JsString("vpc-1")},
      subnetId             : {JsUndefined, JsString("subnet-1")},
      availabilityZone     : {JsUndefined, JsString("eu-west-1a")},
      bucketName           : {JsUndefined, JsString("my-saves")},
      restartApi           : {JsUndefined, JsBoolean(FALSE), JsBoolean(TRUE)},
      useExperimentalBuild : {JsBoolean(FALSE), JsBoolean(TRUE)} ]

HandlerType == {"Start", "Stop", "Reboot"}

\* handler.toLowerCase()
ToLowerCase(handler) ==
    CASE handler = "Start"  -> "start"
      [] handler = "Stop"   -> "stop"
      [] handler = "Reboot" -> "reboot"

-----------------------------------------------------------------------------
(* Network *)

lookUpOrDefaultVpc(vpcId) ==
    IF Truthy(vpcId)
    THEN [construct |-> "Vpc.fromLookup", vpcId |-> TemplateString(vpcId), isDefault |-> FALSE]
    ELSE [construct |-> "Vpc.fromLookup", vpcId |-> "", isDefault |-> TRUE]

\* Fault: `||` for `&&` in the subnet test
publicOrLookupSubnet_Or(subnetId, availabilityZone) ==
    IF Truthy(subnetId) \/ Truthy(availabilityZone)
    THEN [select |-> "subnets",
          subnets |-> << [subnetId |-> TemplateString(subnetId),
                          availabilityZone |-> TemplateString(availabilityZone)] >>]
    ELSE [select |-> "subnetType", subnetType |-> "PUBLIC"]

publicOrLookupSubnet(subnetId, availabilityZone) ==
    IF Truthy(subnetId) /\ Truthy(availabilityZone)
    THEN [select |-> "subnets",
          subnets |-> << [subnetId |-> TemplateString(subnetId),
                          availabilityZone |-> TemplateString(availabilityZone)] >>]
    ELSE [select |-> "subnetType", subnetType |-> "PUBLIC"]

ResolveVpc ==
    /\ pc = "vpc"
    /\ vpc' = lookUpOrDefaultVpc(Config.vpcId)
    /\ pc' = "vpcSubnets"
    /\ UNCHANGED <<Config, vpcSubnets, securityGroup, server, createdBuckets,
                   savesBucket, userData, startupScript, restApi, lambdas,
                   invocations, requests>>

ResolveSubnet ==
    /\ pc = "vpcSubnets"
    /\ vpcSubnets' = publicOrLookupSubnet(Config.subnetId, Config.availabilityZone)
    /\ pc' = "securityGroup"
    /\ UNCHANGED <<Config, vpc, securityGroup, server, createdBuckets,
                   savesBucket, userData, startupScript, restApi, lambdas,
                   invocations, requests>>

-----------------------------------------------------------------------------
(* Security group *)

GamePort == 7777
BeaconPort == 15000
QueryPort == 15777

\* Fault: Port.tcp for Port.udp
addIngressRule_Tcp(sg, port, description) ==
    [sg EXCEPT !.ingress =
        Append(@, [peer |-> "0.0.0.0/0", protocol |-> "tcp",
                   port |-> port, description |-> description])]

\* securityGroup.addIngressRule(Peer.anyIpv4(), Port.udp(port), description)
addIngressRule(sg, port, description) ==
    [sg EXCEPT !.ingress =
        Append(@, [peer |-> "0.0.0.0/0", protocol |-> "udp",
                   port |-> port, description |-> description])]

NewSecurityGroup ==
    /\ pc = "securityGroup"
    /\ securityGroup' = [construct |-> "SecurityGroup", vpc |-> vpc, ingress |-> << >>]
    /\ pc' = "ingressGame"
    /\ UNCHANGED <<Config, vpc, vpcSubnets, server, createdBuckets,
                   savesBucket, userData, startupScript, restApi, lambdas,
                   invocations, requests>>

AddIngressGame ==
    /\ pc = "ingressGame"
    /\ securityGroup' = addIngressRule(securityGroup, GamePort, "Game port")
    /\ pc' = "ingressBeacon"
    /\ UNCHANGED <<Config, vpc, vpcSubnets, server, createdBuckets,
                   savesBucket, userData, startupScript, restApi, lambdas,
                   invocations, requests>>

AddIngressBeacon ==
    /\ pc = "ingressBeacon"
    /\ securityGroup' = addIngressRule(securityGroup, BeaconPort, "Beacon port")
    /\ pc' = "ingressQuery"
    /\ UNCHANGED <<Config, vpc, vpcSubnets, server, createdBuckets,
                   savesBucket, userData, startupScript, restApi, lambdas,
                   invocations, requests>>

AddIngressQuery ==
    /\ pc = "ingressQuery"
    /\ securityGroup' = addIngressRule(securityGroup, QueryPort, "Query port")
    /\ pc' = "server"
    /\ UNCHANGED <<Config, vpc, vpcSubnets, server, createdBuckets,
                   savesBucket, userData, startupScript, restApi, lambdas,
                   invocations, requests>>

-----------------------------------------------------------------------------
(* Instance *)

\* server.instanceId: the one identifier the provider assigns
ServerInstanceId == "i-0satisfactory"

DiskSizeGiB == 30

NewInstance ==
    /\ pc = "server"
    /\ server' = [construct      |-> "Instance",
                  instanceId     |-> ServerInstanceId,
                  instanceType   |-> "m5a.xlarge",
                  volumeGiB      |-> DiskSizeGiB,
                  vpcSubnets     |-> vpcSubnets,
                  vpc            |-> vpc,
                  securityGroup  |-> "ServerSecurityGroup",
                  userDataCausesReplacement |-> TRUE,
                  rolePolicies   |-> {}]
    /\ pc' = "ssmPolicy"
    /\ UNCHANGED <<Config, vpc, vpcSubnets, securityGroup, createdBuckets,
                   savesBucket, userData, startupScript, restApi, lambdas,
                   invocations, requests>>

AddSsmPolicy ==
    /\ pc = "ssmPolicy"
    /\ server' = [server EXCEPT !.rolePolicies =
                     @ \cup {[grant |-> "managed", on |-> "AmazonSSMManagedInstanceCore"]}]
    /\ pc' = "savesBucket"
    /\ UNCHANGED <<Config, vpc, vpcSubnets, securityGroup, createdBuckets,
                   savesBucket, userData, startupScript, restApi, lambdas,
                   invocations, requests>>

-----------------------------------------------------------------------------
(* Save bucket *)

\* The name CloudFormation generates for a bucket created without one
GeneratedBucketName == "satisfactorysavesbucket-1a2b3c"

\* Fault: the configured name is ignored and a bucket is always created
findOrCreateBucket_AlwaysNew(bucketName) ==
    [bucket  |-> [construct |-> "Bucket", bucketName |-> GeneratedBucketName],
     created |-> {GeneratedBucketName}]

\* The bucket construct and the Bucket resources the call adds to the stack
findOrCreateBucket(bucketName) ==
    IF Truthy(bucketName)
    THEN [bucket  |-> [construct |-> "Bucket.fromBucketName",
                       bucketName |-> TemplateString(bucketName)],
          created |-> {}]
    ELSE [bucket  |-> [construct |-> "Bucket", bucketName |-> GeneratedBucketName],
          created |-> {GeneratedBucketName}]

ResolveBucket ==
    /\ pc = "savesBucket"
    /\ LET r == findOrCreateBucket(Config.bucketName)
       IN  /\ savesBucket' = r.bucket
           /\ createdBuckets' = createdBuckets \cup r.created
    /\ pc' = "grantReadWrite"
    /\ UNCHANGED <<Config, vpc, vpcSubnets, securityGroup, server,
                   userData, startupScript, restApi, lambdas, invocations,
                   requests>>

\* bucket.grantReadWrite(role)
grantReadWrite(bucket, role) ==
    role \cup {[grant |-> "readWrite", on |-> bucket.bucketName]}

GrantSavesBucket ==
    /\ pc = "grantReadWrite"
    /\ server' = [server EXCEPT !.rolePolicies = grantReadWrite(savesBucket, @)]
    /\ pc' = "userDataUnzip"
    /\ UNCHANGED <<Config, vpc, vpcSubnets, securityGroup, createdBuckets,
                   savesBucket, userData, startupScript, restApi, lambdas,
                   invocations, requests>>

-----------------------------------------------------------------------------
(* Instance startup *)

\* server.userData.addCommands(...commands)
addCommands(ud, command) == Append(ud, [call |-> "addCommands", command |-> command])

\* The path addS3DownloadCommand returns when given no localFile
LocalPath(bucketKey) == "/tmp/" \o bucketKey

\* server.userData.addS3DownloadCommand({bucket, bucketKey})
addS3DownloadCommand(ud, asset) ==
    Append(ud, [call |-> "addS3DownloadCommand", bucket |-> asset.bucket,
                bucketKey |-> asset.s3ObjectKey,
                localPath |-> LocalPath(asset.s3ObjectKey)])

\* Fault: the two substitutions in the other order
ExecuteArguments_Swapped(bucket, useExperimentalBuild) ==
    << TemplateString(useExperimentalBuild), " ", bucket.bucketName >>

\* The template literal `${savesBucket.bucketName} ${Config.useExperimentalBuild}`
\* as the sequence of its substitutions and literal parts
ExecuteArguments(bucket, useExperimentalBuild) ==
    << bucket.bucketName, " ", TemplateString(useExperimentalBuild) >>

\* server.userData.addExecuteFileCommand({filePath, arguments})
addExecuteFileCommand(ud, filePath, arguments) ==
    Append(ud, [call |-> "addExecuteFileCommand", filePath |-> filePath,
                arguments |-> arguments])

InstallUnzip == "sudo apt-get install unzip -y"

InstallAwsCli == "curl awscli-exe-linux-x86_64.zip && unzip awscliv2.zip && ./aws/install"

UserDataUnzip ==
    /\ pc = "userDataUnzip"
    /\ userData' = addCommands(userData, InstallUnzip)
    /\ pc' = "userDataAwsCli"
    /\ UNCHANGED <<Config, vpc, vpcSubnets, securityGroup, server, createdBuckets,
                   savesBucket, startupScript, restApi, lambdas, invocations,
                   requests>>

UserDataAwsCli ==
    /\ pc = "userDataAwsCli"
    /\ userData' = addCommands(userData, InstallAwsCli)
    /\ pc' = "startupScript"
    /\ UNCHANGED <<Config, vpc, vpcSubnets, securityGroup, server, createdBuckets,
                   savesBucket, startupScript, restApi, lambdas, invocations,
                   requests>>

NewStartupScript ==
    /\ pc = "startupScript"
    /\ startupScript' = [construct |-> "Asset",
                         path |-> "./server-hosting/scripts/install.sh",
                         bucket |-> "cdk-assets", s3ObjectKey |-> "install.sh"]
    /\ server' = [server EXCEPT !.rolePolicies =
                     @ \cup {[grant |-> "read", on |-> "cdk-assets"]}]
    /\ pc' = "userDataDownload"
    /\ UNCHANGED <<Config, vpc, vpcSubnets, securityGroup, createdBuckets,
                   savesBucket, userData, restApi, lambdas, invocations, requests>>

UserDataDownload ==
    /\ pc = "userDataDownload"
    /\ userData' = addS3DownloadCommand(userData, startupScript)
    /\ pc' = "userDataExecute"
    /\ UNCHANGED <<Config, vpc, vpcSubnets, securityGroup, server, createdBuckets,
                   savesBucket, startupScript, restApi, lambdas, invocations,
                   requests>>

\* const localPath is the value the download call returned
UserDataExecute ==
    /\ pc = "userDataExecute"
    /\ userData' = addExecuteFileCommand(userData,
                       userData[Len(userData)].localPath,
                       ExecuteArguments(savesBucket, Config.useExperimentalBuild))
    /\ pc' = "restApi"
    /\ UNCHANGED <<Config, vpc, vpcSubnets, securityGroup, server, createdBuckets,
                   savesBucket, startupScript, restApi, lambdas, invocations,
                   requests>>

-----------------------------------------------------------------------------
(* Control API *)

\* Fault: the API is built unless the flag is false
RestartApiEnabled_UnlessFalse(restartApi) == restartApi # JsBoolean(FALSE)

\* if (Config.restartApi && Config.restartApi === true)
RestartApiEnabled(restartApi) == Truthy(restartApi) /\ restartApi = JsBoolean(TRUE)

\* entry: `./server-hosting/lambda/${handler.toLowerCase()}.ts`
LambdaEntry(handler) == "./server-hosting/lambda/" \o ToLowerCase(handler) \o ".ts"

\* Fault: every handler is granted all three control actions
LambdaActions_All(handler) ==
    {"ec2:StartInstances", "ec2:StopInstances", "ec2:RebootInstances"}

\* actions: [`ec2:${handler}Instances`]
LambdaActions(handler) == {"ec2:" \o handler \o "Instances"}

\* resources: [`arn:aws:ec2:*:${Config.account}:instance/${instanceId}`]
LambdaResources(account, instanceId) ==
    {"arn:aws:ec2:*:" \o TemplateString(account) \o ":instance/" \o instanceId}

\* new NodejsFunction(...) followed by lambda.addToRolePolicy(...)
NewLambda(prefix, account, instanceId, handler) ==
    [id          |-> TemplateString(prefix) \o handler \o "ServerLambda",
     entry       |-> LambdaEntry(handler),
     timeoutSec  |-> 10,
     environment |-> [INSTANCE_ID |-> instanceId],
     rolePolicy  |-> {[actions   |-> LambdaActions(handler),
                       resources |-> LambdaResources(account, instanceId)]}]

\* restApi.root.addResource(handler.toLowerCase()).addMethod("GET", integration)
NewMethod(lambda, handler) ==
    [path |-> "/" \o ToLowerCase(handler), method |-> "GET", integration |-> lambda.id]

createLambda(instanceId, handler) ==
    LET lambda == NewLambda(Config.prefix, Config.account, instanceId, handler)
    IN  /\ lambdas' = lambdas \cup {lambda}
        /\ restApi' = [restApi EXCEPT !.methods = @ \cup {NewMethod(lambda, handler)}]

NewRestApi ==
    /\ pc = "restApi"
    /\ IF RestartApiEnabled(Config.restartApi)
       THEN /\ restApi' = [construct |-> "RestApi", methods |-> {}]
            /\ pc' = "createStart"
       ELSE /\ restApi' = restApi
            /\ pc' = "done"
    /\ UNCHANGED <<Config, vpc, vpcSubnets, securityGroup, server, createdBuckets,
                   savesBucket, userData, startupScript, lambdas, invocations,
                   requests>>

CreateStartLambda ==
    /\ pc = "createStart"
    /\ createLambda(server.instanceId, "Start")
    /\ pc' = "createStop"
    /\ UNCHANGED <<Config, vpc, vpcSubnets, securityGroup, server, createdBuckets,
                   savesBucket, userData, startupScript, invocations, requests>>

CreateStopLambda ==
    /\ pc = "createStop"
    /\ createLambda(server.instanceId, "Stop")
    /\ pc' = "createReboot"
    /\ UNCHANGED <<Config, vpc, vpcSubnets, securityGroup, server, createdBuckets,
                   savesBucket, userData, startupScript, invocations, requests>>

CreateRebootLambda ==
    /\ pc = "createReboot"
    /\ createLambda(server.instanceId, "Reboot")
    /\ pc' = "done"
    /\ UNCHANGED <<Config, vpc, vpcSubnets, securityGroup, server, createdBuckets,
                   savesBucket, userData, startupScript, invocations, requests>>

-----------------------------------------------------------------------------
(* The handlers: lambda/start.ts, lambda/stop.ts, lambda/reboot.ts.         *)
(* The three files differ only in the command and the two messages.        *)

startHandler ==
    [command |-> "StartInstancesCommand",
     success |-> "Started satisfactory server",
     failure |-> "Failed to start satisfactory server"]

\* Fault: stop.ts copied from start.ts with its success message left as it was
stopHandler_Copied ==
    [command |-> "StopInstancesCommand",
     success |-> "Started satisfactory server",
     failure |-> "Failed to stop satisfactory server"]

stopHandler ==
    [command |-> "StopInstancesCommand",
     success |-> "Stopped satisfactory server",
     failure |-> "Failed to stop satisfactory server"]

rebootHandler ==
    [command |-> "RebootInstancesCommand",
     success |-> "Rebooted satisfactory server",
     failure |-> "Failed to reboot satisfactory server"]

\* The module a NodejsFunction bundles from its entry
HandlerModule(entry) ==
    CASE entry = "./server-hosting/lambda/start.ts"  -> startHandler
      [] entry = "./server-hosting/lambda/stop.ts"   -> stopHandler
      [] entry = "./server-hosting/lambda/reboot.ts" -> rebootHandler

\* The EC2 API action a command of the SDK calls
Ec2Action(command) ==
    CASE command = "StartInstancesCommand"  -> "ec2:StartInstances"
      [] command = "StopInstancesCommand"   -> "ec2:StopInstances"
      [] command = "RebootInstancesCommand" -> "ec2:RebootInstances"

(* Values client.send settles with.  A resolved promise carries the        *)
(* command's output.  A rejected one carries an error object:              *)
(*   ServiceException  the service refused; name, $fault and $metadata are *)
(*                     own enumerable properties;                          *)
(*   Error             a plain Error (message and stack only, neither      *)
(*                     enumerable), e.g. a credentials or region failure;  *)
(*   TlsCertError      Node's ERR_TLS_CERT_ALTNAME_INVALID, whose          *)
(*                     enumerable cert property holds the peer certificate *)
(*                     chain; the root's issuerCertificate is the root     *)
(*                     itself.                                             *)
CommandOutput(command, instanceId) ==
    [js |-> "CommandOutput", name |-> command, instanceId |-> instanceId]

ServiceException(name) ==
    [js |-> "ServiceException", name |-> name, instanceId |-> ""]

PlainError(name) == [js |-> "Error", name |-> name, instanceId |-> ""]

TlsCertError == [js |-> "TlsCertError", name |-> "Error", instanceId |-> ""]

\* What JSON.stringify throws on a cyclic structure
TypeErrorValue == PlainError("TypeError")

\* JSON.stringify(value): the text, or the throw.  Only own enumerable
\* properties are written; a cyclic structure throws a TypeError.
JSONStringify(value) ==
    CASE value.js = "CommandOutput" ->
           [throws |-> FALSE,
            text |-> "{\"$metadata\":{\"httpStatusCode\":200},\"" \o value.name
                     \o "\":[\"" \o value.instanceId \o "\"]}"]
      [] value.js = "ServiceException" ->
           [throws |-> FALSE,
            text |-> "{\"name\":\"" \o value.name
                     \o "\",\"$fault\":\"client\",\"$metadata\":{\"httpStatusCode\":400}}"]
      [] value.js = "Error" ->
           [throws |-> FALSE, text |-> "{}"]
      [] value.js = "TlsCertError" ->
           [throws |-> TRUE, text |-> ""]

\* return { statusCode: 200, headers, body: JSON.stringify({message, response}) }
\* The body is kept as the object it serializes: both members are strings.
Returned(message, response) ==
    [outcome    |-> "returned",
     statusCode |-> 200,
     headers    |-> "text/json",
     body       |-> [message |-> message, response |-> response]]

\* The async function rejects: the invocation ends with a thrown error
Thrown(error) ==
    [outcome |-> "thrown", statusCode |-> 0, headers |-> "",
     body |-> [message |-> "", response |-> ""]]

\* catch (error) { console.error(JSON.stringify(error)); return {...} }
HandlerCatch(module, error) ==
    LET logged == JSONStringify(error)
    IN  IF logged.throws
        THEN Thrown(TypeErrorValue)
        ELSE Returned(module.failure, JSONStringify(error).text)

\* The rest of the try block, after the await
HandlerTry(module, response) ==
    LET logged == JSONStringify(response)
    IN  IF logged.throws
        THEN HandlerCatch(module, TypeErrorValue)
        ELSE Returned(module.success, JSONStringify(response).text)

-----------------------------------------------------------------------------
(* The EC2 control plane *)

InstanceArn(account, instanceId) ==
    "arn:aws:ec2:*:" \o TemplateString(account) \o ":instance/" \o instanceId

\* IAM: some statement of the caller's role allows the action on every target
Authorized(lambda, action, instanceIds) ==
    \A k \in 1..Len(instanceIds) :
        \E st \in lambda.rolePolicy :
            /\ action \in st.actions
            /\ InstanceArn(Config.account, instanceIds[k]) \in st.resources

\* What the call may settle with.  An unauthorized call and a call on an
\* unknown instance are refused; an authorized one is accepted, refused for
\* the instance's state, or fails on the way.
SendOutcomes(lambda, request) ==
    IF ~Authorized(lambda, request.action, request.InstanceIds)
    THEN {ServiceException("UnauthorizedOperation")}
    ELSE IF \E k \in 1..Len(request.InstanceIds) :
                request.InstanceIds[k] # ServerInstanceId
    THEN {ServiceException("InvalidInstanceID.NotFound")}
    ELSE { CommandOutput(request.command, request.InstanceIds[1]),
           ServiceException("IncorrectInstanceState"),
           PlainError("CredentialsProviderError"),
           TlsCertError }

-----------------------------------------------------------------------------
(* Runtime *)

LambdaOf(id) == CHOOSE l \in lambdas : l.id = id

\* Lines 4-11 of a handler, up to the await: one request leaves
HandlerSend(n, lambda) ==
    LET module     == HandlerModule(lambda.entry)
        instanceId == lambda.environment.INSTANCE_ID
    IN  << [invocation  |-> n,
            command     |-> module.command,
            action      |-> Ec2Action(module.command),
            InstanceIds |-> <<instanceId>>] >>

\* GET on a method of the API runs the integrated handler up to its await
Invoke(m) ==
    /\ pc = "done"
    /\ restApi # Null
    /\ m \in restApi.methods
    /\ Len(invocations) < MaxInvocations
    /\ LET lambda == LambdaOf(m.integration)
           n      == Len(invocations) + 1
       IN  /\ invocations' = Append(invocations,
                                [path |-> m.path, lambda |-> lambda.id,
                                 state |-> "awaiting",
                                 settled |-> "pending",
                                 value |-> PlainError("none"),
                                 result |-> Thrown(PlainError("none"))])
           /\ requests' = requests \o HandlerSend(n, lambda)
    /\ UNCHANGED stackVars

RequestOf(n) == CHOOSE k \in 1..Len(requests) : requests[k].invocation = n

\* client.send settles: the control plane answers request n
Settle(n, value) ==
    /\ n \in 1..Len(invocations)
    /\ invocations[n].state = "awaiting"
    /\ value \in SendOutcomes(LambdaOf(invocations[n].lambda), requests[RequestOf(n)])
    /\ invocations' = [invocations EXCEPT
                         ![n].state = "settled",
                         ![n].settled = IF value.js = "CommandOutput"
                                        THEN "resolved" ELSE "rejected",
                         ![n].value = value]
    /\ UNCHANGED <<stackVars, requests>>

\* Fault: a rejected call is sent once more before the handler gives up
HandlerResume_Retry(n, inv) ==
    LET lambda == LambdaOf(inv.lambda)
        module == HandlerModule(lambda.entry)
        sent   == Cardinality({ k \in 1..Len(requests) : requests[k].invocation = n })
    IN  IF inv.settled = "rejected" /\ sent < 2
        THEN /\ invocations' = [invocations EXCEPT ![n].state = "awaiting",
                                                   ![n].settled = "pending"]
             /\ requests' = requests \o HandlerSend(n, lambda)
        ELSE /\ invocations' = [invocations EXCEPT
                                  ![n].state = "ended",
                                  ![n].result = IF inv.settled = "resolved"
                                                THEN HandlerTry(module, inv.value)
                                                ELSE HandlerCatch(module, inv.value)]
             /\ requests' = requests

\* The handler resumes after the await and runs to its end
HandlerResume(n, inv) ==
    LET module == HandlerModule(LambdaOf(inv.lambda).entry)
    IN  /\ invocations' = [invocations EXCEPT
                             ![n].state = "ended",
                             ![n].result = IF inv.settled = "resolved"
                                           THEN HandlerTry(module, inv.value)
                                           ELSE HandlerCatch(module, inv.value)]
        /\ requests' = requests

Resume(n) ==
    /\ n \in 1..Len(invocations)
    /\ invocations[n].state = "settled"
    /\ HandlerResume(n, invocations[n])
    /\ UNCHANGED stackVars

-----------------------------------------------------------------------------

Init ==
    /\ Config \in ConfigSpace
    /\ pc = "vpc"
    /\ vpc = Null
    /\ vpcSubnets = Null
    /\ securityGroup = Null
    /\ server = Null
    /\ createdBuckets = {}
    /\ savesBucket = Null
    /\ userData = << >>
    /\ startupScript = Null
    /\ restApi = Null
    /\ lambdas = {}
    /\ invocations = << >>
    /\ requests = << >>

AllValues ==
    { CommandOutput(c, ServerInstanceId) :
        c \in {"StartInstancesCommand", "StopInstancesCommand", "RebootInstancesCommand"} }
    \cup { ServiceException(e) :
        e \in {"UnauthorizedOperation", "InvalidInstanceID.NotFound", "IncorrectInstanceState"} }
    \cup { PlainError("CredentialsProviderError"), TlsCertError }

Next ==
    \/ ResolveVpc
    \/ ResolveSubnet
    \/ NewSecurityGroup
    \/ AddIngressGame
    \/ AddIngressBeacon
    \/ AddIngressQuery
    \/ NewInstance
    \/ AddSsmPolicy
    \/ ResolveBucket
    \/ GrantSavesBucket
    \/ UserDataUnzip
    \/ UserDataAwsCli
    \/ NewStartupScript
    \/ UserDataDownload
    \/ UserDataExecute
    \/ NewRestApi
    \/ CreateStartLambda
    \/ CreateStopLambda
    \/ CreateRebootLambda
    \/ \E m \in (IF restApi = Null THEN {} ELSE restApi.methods) : Invoke(m)
    \/ \E n \in 1..Len(invocations) : \E value \in AllValues : Settle(n, value)
    \/ \E n \in 1..Len(invocations) : Resume(n)

Spec == Init /\ [][Next]_vars

-----------------------------------------------------------------------------
(* Vocabulary of the properties *)

Ended == { n \in 1..Len(invocations) : invocations[n].state = "ended" }

Verbs == {"start", "stop", "reboot"}

VerbOfPath(path) ==
    CASE path = "/start"  -> "start"
      [] path = "/stop"   -> "stop"
      [] path = "/reboot" -> "reboot"

SucceededMessage(verb) ==
    CASE verb = "start"  -> "Started satisfactory server"
      [] verb = "stop"   -> "Stopped satisfactory server"
      [] verb = "reboot" -> "Rebooted satisfactory server"

FailedMessage(verb) == "Failed to " \o verb \o " satisfactory server"

ControlAction(verb) ==
    CASE verb = "start"  -> "ec2:StartInstances"
      [] verb = "stop"   -> "ec2:StopInstances"
      [] verb = "reboot" -> "ec2:RebootInstances"

\* The words a shell makes of an argument string whose parts hold no blanks
ShellWords(parts) == SelectSeq(parts, LAMBDA p : p # " " /\ p # "")

ApiFlagOn == Config.restartApi = JsBoolean(TRUE)

-----------------------------------------------------------------------------
(* C1: whenever the provider call of a handler raises an error, the        *)
(* handler returns status 200 with the message "Failed to {verb}           *)
(* satisfactory server" and a non-empty serialization of the error in the  *)
(* response field, whatever the error value is.                            *)
C1_FailureIsReported ==
    \A n \in Ended :
        invocations[n].settled = "rejected" =>
            /\ invocations[n].result.outcome = "returned"
            /\ invocations[n].result.statusCode = 200
            /\ invocations[n].result.body.message
                   = FailedMessage(VerbOfPath(invocations[n].path))
            /\ invocations[n].result.body.response # ""

(* C2: whenever the provider accepts the call of a handler invoked with    *)
(* the instance's identifier, the handler returns status 200 with the      *)
(* message "Started", "Stopped" or "Rebooted satisfactory server" of its   *)
(* own verb and the acknowledgment in the response field; a success        *)
(* message is never returned for a call that failed.                       *)
C2_SuccessIsReported ==
    \A n \in Ended :
        LET inv  == invocations[n]
            verb == VerbOfPath(inv.path)
        IN  /\ inv.settled = "resolved" =>
                 /\ inv.result.outcome = "returned"
                 /\ inv.result.statusCode = 200
                 /\ inv.result.body.message = SucceededMessage(verb)
                 /\ inv.value.js = "CommandOutput"
                 /\ inv.value.instanceId = ServerInstanceId
                 /\ inv.result.body.response = JSONStringify(inv.value).text
                 /\ inv.result.body.response # ""
            /\ inv.result.body.message \in { SucceededMessage(v) : v \in Verbs }
                 => inv.settled = "resolved"

C2_Witness ==
    \E n \in Ended :
        /\ invocations[n].settled = "resolved"
        /\ invocations[n].path = "/stop"
        /\ invocations[n].result.body.message = "Stopped satisfactory server"

(* C3: every invocation of a handler ends by returning a response with     *)
(* status 200 and a body holding a string message and a string response;   *)
(* none ends with a thrown error.                                          *)
C3_AlwaysReturns200 ==
    \A n \in Ended :
        /\ invocations[n].result.outcome = "returned"
        /\ invocations[n].result.statusCode = 200
        /\ DOMAIN invocations[n].result.body = {"message", "response"}

(* C4: each invocation issues exactly one provider request, for its own    *)
(* verb and for the instance identifier of its environment, whether the    *)
(* request succeeds or fails; n invocations, in any interleaving, issue    *)
(* exactly n requests.                                                     *)
C4_OneRequestPerInvocation ==
    /\ Len(requests) = Len(invocations)
    /\ \A n \in 1..Len(invocations) :
         /\ Cardinality({ k \in 1..Len(requests) : requests[k].invocation = n }) = 1
         /\ \A k \in 1..Len(requests) :
              requests[k].invocation = n =>
                /\ requests[k].action = ControlAction(VerbOfPath(invocations[n].path))
                /\ requests[k].InstanceIds = << ServerInstanceId >>

C4_Witness ==
    /\ Len(invocations) = 2
    /\ Ended = {1, 2}
    /\ invocations[1].path = invocations[2].path
    /\ invocations[1].settled = "rejected"
    /\ invocations[2].settled = "resolved"
    /\ Len(requests) = 2

(* C5: with the control-API flag false or absent the stack holds no        *)
(* endpoint, no handler and no instance-control grant; with the flag true  *)
(* the finished stack holds exactly GET /start, GET /stop and GET /reboot. *)
C5_ApiGatedByFlag ==
    /\ ~ApiFlagOn => /\ restApi = Null
                     /\ lambdas = {}
                     /\ invocations = << >>
    /\ (ApiFlagOn /\ pc = "done") =>
         /\ restApi # Null
         /\ { <<m.method, m.path>> : m \in restApi.methods }
              = { <<"GET", "/start">>, <<"GET", "/stop">>, <<"GET", "/reboot">> }
         /\ Cardinality(restApi.methods) = 3
         /\ Cardinality(lambdas) = 3

C5_Witness ==
    /\ pc = "done"
    /\ Config.restartApi = JsUndefined
    /\ restApi = Null
    /\ lambdas = {}

C7_BucketResolution ==
    pc \in {"restApi", "createStart", "createStop", "createReboot", "done"} =>
        /\ IF Config.bucketName \notin {JsUndefined, JsString("")}
           THEN /\ createdBuckets = {}
                /\ savesBucket.bucketName = Config.bucketName[2]
           ELSE /\ Cardinality(createdBuckets) = 1
                /\ savesBucket.bucketName \in createdBuckets
        /\ [grant |-> "readWrite", on |-> savesBucket.bucketName] \in server.rolePolicies
        /\ { g.on : g \in { p \in server.rolePolicies : p.grant = "readWrite" } }
             = { savesBucket.bucketName }
        /\ ShellWords(userData[Len(userData)].arguments)[1] = savesBucket.bucketName

C7_Witness ==
    /\ pc = "done"
    /\ Config.bucketName = JsString("my-saves")
    /\ createdBuckets = {}
    /\ savesBucket.bucketName = "my-saves"

(* C8: once built, the security group holds exactly three ingress rules,   *)
(* UDP 7777, UDP 15000 and UDP 15777, each from any address, under every   *)
(* configuration.                                                          *)
C8_ThreeIngressRules ==
    pc \notin {"vpc", "vpcSubnets", "securityGroup",
               "ingressGame", "ingressBeacon", "ingressQuery"} =>
        /\ Len(securityGroup.ingress) = 3
        /\ { <<r.protocol, r.port, r.peer>> :
               r \in { securityGroup.ingress[k] : k \in 1..3 } }
             = { <<"udp", 7777, "0.0.0.0/0">>, <<"udp", 15000, "0.0.0.0/0">>,
                 <<"udp", 15777, "0.0.0.0/0">> }

C8_Witness ==
    /\ pc = "done"
    /\ Config.vpcId = JsString("vpc-1")
    /\ Config.restartApi = JsBoolean(TRUE)
    /\ Len(securityGroup.ingress) = 3

(* C9: with the control API enabled, each of the three handlers is granted *)
(* exactly one action, that of its own verb, on the one provisioned        *)
(* instance, and all three carry that instance's identifier in their       *)
(* environment.                                                            *)
C9_LeastPrivilege ==
    (ApiFlagOn /\ pc = "done") =>
        /\ \A l \in lambdas :
             /\ l.environment.INSTANCE_ID = server.instanceId
             /\ l.environment.INSTANCE_ID = ServerInstanceId
        /\ \A verb \in Verbs :
             \E l \in lambdas :
                /\ l.entry = "./server-hosting/lambda/" \o verb \o ".ts"
                /\ \A o \in lambdas : o.entry = l.entry => o = l
                /\ Ec2Action(HandlerModule(l.entry).command) = ControlAction(verb)
                /\ Cardinality(l.rolePolicy) = 1
                /\ \A st \in l.rolePolicy :
                     /\ st.actions = { ControlAction(verb) }
                     /\ st.resources
                          = { "arn:aws:ec2:*:123456789012:instance/i-0satisfactory" }
                /\ [path |-> "/" \o verb, method |-> "GET", integration |-> l.id]
                     \in restApi.methods

C9_Witness ==
    /\ pc = "done"
    /\ \E l \in lambdas :
         /\ l.entry = "./server-hosting/lambda/reboot.ts"
         /\ \E st \in l.rolePolicy : st.actions = {"ec2:RebootInstances"}

(* C10: the bootstrap sequence is, in order: install unzip, install the    *)
(* AWS CLI, fetch the installer, execute the installer with exactly two    *)
(* arguments, the bucket name and then the experimental-build flag; at no  *)
(* point does it hold the execution without the fetch, or the fetch        *)
(* without the CLI installation.                                           *)
C10_BootstrapOrder ==
    LET kinds == [ k \in 1..Len(userData) |->
                     IF userData[k].call = "addCommands"
                     THEN userData[k].command ELSE userData[k].call ]
        whole == << "sudo apt-get install unzip -y",
                    "curl awscli-exe-linux-x86_64.zip && unzip awscliv2.zip && ./aws/install",
                    "addS3DownloadCommand", "addExecuteFileCommand" >>
    IN  /\ Len(userData) <= 4
        /\ kinds = SubSeq(whole, 1, Len(userData))
        /\ pc \in {"restApi", "createStart", "createStop", "createReboot", "done"} =>
             /\ Len(userData) = 4
             /\ userData[4].filePath = userData[3].localPath
             /\ ShellWords(userData[4].arguments)
                  = << savesBucket.bucketName, Config.useExperimentalBuild[2] >>
             /\ Config.useExperimentalBuild[2] \in {"true", "false"}

C10_Witness ==
    /\ pc = "done"
    /\ Len(userData) = 4
    /\ Config.useExperimentalBuild = JsBoolean(TRUE)
    /\ Config.bucketName = JsUndefined
    /\ ShellWords(userData[4].arguments) = << "satisfactorysavesbucket-1a2b3c", "true" >>

====
